---- MODULE Spec2Model ----
(***************************************************************************)
(* palabras-rag: the collector (scraper.py) that writes one snapshot file  *)
(* per day, and the aggregator (accumulate.py) that turns a directory of   *)
(* snapshots into a cumulative table, a CSV export and a top-15 chart.     *)
(*                                                                         *)
(* Text is modelled as sequences of one-character strings, so that         *)
(* startswith/endswith/replace, the lexicographic sort of file names,      *)
(* splitlines and the CSV text are computed as the code computes them.     *)
(***************************************************************************)
EXTENDS Integers, Sequences, FiniteSets

VARIABLES
    today,      \* the wall clock's date, <<year, month, day>>
    dir,        \* the output directory: file name -> [exists, data]
    pc,         \* collector invocation -> its position in main()
    file_path,  \* collector invocation -> the snapshot name it computed
    page,       \* collector invocation -> the parsed response
    fetched,    \* collector invocation -> HTTP GETs issued by its current run
    outcome,    \* collector invocation -> how its last run ended
    raced,      \* collector invocation -> another run created its file after its check
    apc,        \* the aggregator's position in its __main__ block
    file_names, \* the aggregator's sorted list of snapshot file names
    df,         \* the aggregator's table (the DataFrame)
    csv,        \* the text written by to_csv, as a sequence of lines
    png         \* the bars of the top-15 chart, a set of <<word, count>>

cvars == <<today, dir, pc, file_path, page, fetched, outcome, raced>>
avars == <<apc, file_names, df, csv, png>>
vars == <<today, dir, pc, file_path, page, fetched, outcome, raced,
          apc, file_names, df, csv, png>>

----------------------------------------------------------------------------
(* Bounds *)

\* number of consecutive days the clock can show (2024-01-09 onwards)
NumDays == 2
\* most word columns in the table handed to save_last_row_as_png
MaxCols == 18
\* most columns of that table whose final count is below the others
MaxLow == 3

----------------------------------------------------------------------------
(* Text *)

\* The characters used, in ascending code-point order.
CharOrder ==
    << "\n", "\"", ",", ".",
       "0", "1", "2", "3", "4", "5", "6", "7", "8", "9", "_",
       "a", "b", "c", "d", "e", "f", "g", "h", "i", "j", "k", "l", "m",
       "n", "o", "p", "q", "r", "s", "t", "u", "v", "w", "x", "y", "z" >>

Ord(c) == CHOOSE i \in 1..Len(CharOrder) : CharOrder[i] = c

DigitChars == <<"0", "1", "2", "3", "4", "5", "6", "7", "8", "9">>

NL == "\n"

RECURSIVE Pow10(_)
Pow10(k) == IF k = 0 THEN 1 ELSE 10 * Pow10(k - 1)

\* Python's str < str: lexicographic by code point, a proper prefix first.
RECURSIVE StrLess(_, _)
StrLess(a, b) ==
    IF b = <<>> THEN FALSE
    ELSE IF a = <<>> THEN TRUE
    ELSE IF Head(a) # Head(b) THEN Ord(Head(a)) < Ord(Head(b))
    ELSE StrLess(Tail(a), Tail(b))

StartsWith(s, pre) ==
    Len(s) >= Len(pre) /\ SubSeq(s, 1, Len(pre)) = pre

EndsWith(s, suf) ==
    Len(s) >= Len(suf) /\ SubSeq(s, Len(s) - Len(suf) + 1, Len(s)) = suf

\* str.replace(old, ""): every non-overlapping occurrence, left to right.
RECURSIVE RemoveAll(_, _)
RemoveAll(s, old) ==
    IF s = <<>> THEN <<>>
    ELSE IF StartsWith(s, old) THEN RemoveAll(SubSeq(s, Len(old) + 1, Len(s)), old)
    ELSE <<Head(s)>> \o RemoveAll(Tail(s), old)

\* A zero-padded decimal field of strftime (%Y of a 4-digit year, %m, %d).
Pad(n, width) ==
    [i \in 1..width |-> DigitChars[((n \div Pow10(width - i)) % 10) + 1]]

\* str(n) of a non-negative integer.
RECURSIVE FormatInt(_)
FormatInt(n) ==
    IF n < 10 THEN <<DigitChars[n + 1]>>
    ELSE FormatInt(n \div 10) \o <<DigitChars[(n % 10) + 1]>>

\* str.splitlines(): the text between line breaks; a final line break ends
\* the last line and starts no new one.
RECURSIVE SplitLinesFrom(_, _)
SplitLinesFrom(s, cur) ==
    IF s = <<>> THEN (IF cur = <<>> THEN <<>> ELSE <<cur>>)
    ELSE IF Head(s) = NL THEN <<cur>> \o SplitLinesFrom(Tail(s), <<>>)
    ELSE SplitLinesFrom(Tail(s), Append(cur, Head(s)))

SplitLines(s) == SplitLinesFrom(s, <<>>)

\* for word in words: file.write(f"{word}\n")
RECURSIVE WriteLines(_)
WriteLines(words) ==
    IF words = <<>> THEN <<>>
    ELSE Head(words) \o <<NL>> \o WriteLines(Tail(words))

----------------------------------------------------------------------------
(* Names and dates *)

PREFIX == <<"p", "a", "l", "a", "b", "r", "a", "s", "_">>
SUFFIX == <<".", "t", "x", "t">>
DATE == <<"d", "a", "t", "e">>

sol == <<"s", "o", "l">>
mar == <<"m", "a", "r">>

FirstDate == <<2024, 1, 9>>
Dates == { <<2024, 1, 8 + i>> : i \in 1..NumDays }

DateBefore(a, b) ==
    \/ a[1] < b[1]
    \/ a[1] = b[1] /\ a[2] < b[2]
    \/ a[1] = b[1] /\ a[2] = b[2] /\ a[3] < b[3]

\* today.strftime('%Y_%m_%d')
Strftime(d) ==
    Pad(d[1], 4) \o <<"_">> \o Pad(d[2], 2) \o <<"_">> \o Pad(d[3], 2)

\* f"palabras_{date_str}.txt"
SnapshotName(d) == PREFIX \o Strftime(d) \o SUFFIX

\* Directory entries that are not snapshots.
ForeignNames ==
    { <<"n", "o", "t", "e", "s">> \o SUFFIX,
      PREFIX \o <<"o", "l", "d">> }

AllNames == { SnapshotName(d) : d \in Dates } \cup ForeignNames

Absent == [exists |-> FALSE, data |-> <<>>]
File(text) == [exists |-> TRUE, data |-> text]

\* os.path.exists(file_path)
Exists(d, name) == d[name].exists

\* os.listdir(directory)
ListDir(d) == { n \in DOMAIN d : d[n].exists }

----------------------------------------------------------------------------
(* Collector: scraper.main *)

Procs == {"run1", "run2"}

NoPage == [div |-> FALSE, week_list |-> FALSE, words |-> <<>>]

\* What requests.get + BeautifulSoup can hand to main: the page without the
\* top-searches div, the div without its weekly list, or the div with a list.
Pages ==
    { NoPage,
      [div |-> TRUE, week_list |-> FALSE, words |-> <<>>],
      [div |-> TRUE, week_list |-> TRUE, words |-> <<>>],
      [div |-> TRUE, week_list |-> TRUE, words |-> <<sol>>],
      [div |-> TRUE, week_list |-> TRUE, words |-> <<sol, mar>>] }

\* `if os.path.exists(file_path): ... return` with the return left out
SkipsWriteNever(d, name) == FALSE

\* if os.path.exists(file_path): print(...); return
SkipsWrite(d, name) == Exists(d, name)

\* soup.find('div', id=...) is truthy
FindDiv(p) == p.div

\* A buffered text file opened with 'w' is flushed at close, at offset 0 of
\* whatever the file holds by then.
Overlay(old, buf) == buf \o SubSeq(old, Len(buf) + 1, Len(old))

EndRun(p, how) ==
    /\ pc' = [pc EXCEPT ![p] = "idle"]
    /\ outcome' = [outcome EXCEPT ![p] = how]
    /\ file_path' = [file_path EXCEPT ![p] = <<>>]
    /\ page' = [page EXCEPT ![p] = NoPage]

\* The clock reaches the next day.
Tick ==
    /\ <<today[1], today[2], today[3] + 1>> \in Dates
    /\ today' = <<today[1], today[2], today[3] + 1>>
    /\ UNCHANGED <<dir, pc, file_path, page, fetched, outcome, raced>>
    /\ UNCHANGED avars

\* main, lines 8-12: read the clock, build the file name.
Begin(p) ==
    /\ pc[p] = "idle"
    /\ pc' = [pc EXCEPT ![p] = "check"]
    /\ file_path' = [file_path EXCEPT ![p] = SnapshotName(today)]
    /\ fetched' = [fetched EXCEPT ![p] = 0]
    /\ outcome' = [outcome EXCEPT ![p] = "none"]
    /\ raced' = [raced EXCEPT ![p] = FALSE]
    /\ UNCHANGED <<today, dir, page>>
    /\ UNCHANGED avars

\* The collector as section 4.1 of the specification describes it: the page
\* is fetched first, the existence check follows.
FetchThenCheck(p) ==
    /\ pc[p] = "check"
    /\ fetched' = [fetched EXCEPT ![p] = @ + 1]
    /\ IF Exists(dir, file_path[p])
       THEN EndRun(p, "skipped")
       ELSE /\ \E r \in Pages : page' = [page EXCEPT ![p] = r]
            /\ pc' = [pc EXCEPT ![p] = "parse"]
            /\ UNCHANGED <<outcome, file_path>>
    /\ UNCHANGED <<today, dir, raced>>
    /\ UNCHANGED avars

\* main, lines 14-16: the existence check.
Check(p) ==
    /\ pc[p] = "check"
    /\ IF SkipsWrite(dir, file_path[p])
       THEN EndRun(p, "skipped")
       ELSE /\ pc' = [pc EXCEPT ![p] = "fetch"]
            /\ UNCHANGED <<outcome, file_path, page>>
    /\ UNCHANGED <<today, dir, fetched, raced>>
    /\ UNCHANGED avars

\* main, lines 18-23: the GET; a transport error propagates and ends the run.
Fetch(p) ==
    /\ pc[p] = "fetch"
    /\ fetched' = [fetched EXCEPT ![p] = @ + 1]
    /\ \/ EndRun(p, "failed")
       \/ /\ \E r \in Pages : page' = [page EXCEPT ![p] = r]
          /\ pc' = [pc EXCEPT ![p] = "parse"]
          /\ UNCHANGED <<outcome, file_path>>
    /\ UNCHANGED <<today, dir, raced>>
    /\ UNCHANGED avars

\* main with open() moved above the markup test: the file is created before
\* the div is looked for.
ParseOpensFirst(p) ==
    /\ pc[p] = "parse"
    /\ dir' = [dir EXCEPT ![file_path[p]] = File(<<>>)]
    /\ IF FindDiv(page[p]) /\ page[p].week_list
       THEN /\ pc' = [pc EXCEPT ![p] = "write"]
            /\ outcome' = [outcome EXCEPT ![p] = "created"]
            /\ UNCHANGED <<file_path, page>>
       ELSE EndRun(p, IF FindDiv(page[p]) THEN "failed" ELSE "nodiv")
    /\ UNCHANGED <<today, fetched, raced>>
    /\ UNCHANGED avars

\* main, lines 25-30 and 36-37: look for the div and its list; without the
\* div print the message; without the list .find_all raises.
Parse(p) ==
    /\ pc[p] = "parse"
    /\ IF FindDiv(page[p])
       THEN IF page[p].week_list
            THEN /\ pc' = [pc EXCEPT ![p] = "open"]
                 /\ UNCHANGED <<outcome, file_path, page>>
            ELSE EndRun(p, "failed")
       ELSE EndRun(p, "nodiv")
    /\ UNCHANGED <<today, dir, fetched, raced>>
    /\ UNCHANGED avars

\* main, line 32: open(file_path, 'w') creates the file or truncates it.
Open(p) ==
    /\ pc[p] = "open"
    /\ dir' = [dir EXCEPT ![file_path[p]] = File(<<>>)]
    /\ outcome' = [outcome EXCEPT ![p] =
                      IF Exists(dir, file_path[p]) THEN "overwrote" ELSE "created"]
    /\ raced' = [q \in Procs |->
                    IF /\ q # p
                       /\ pc[q] \in {"fetch", "parse", "open"}
                       /\ file_path[q] = file_path[p]
                       /\ ~Exists(dir, file_path[p])
                    THEN TRUE ELSE raced[q]]
    /\ pc' = [pc EXCEPT ![p] = "write"]
    /\ UNCHANGED <<today, file_path, page, fetched>>
    /\ UNCHANGED avars

\* main, lines 33-35: the words, one per line, reach the file at close.
WriteClose(p) ==
    /\ pc[p] = "write"
    /\ dir' = [dir EXCEPT ![file_path[p]] =
                  File(Overlay(dir[file_path[p]].data, WriteLines(page[p].words)))]
    /\ pc' = [pc EXCEPT ![p] = "idle"]
    /\ file_path' = [file_path EXCEPT ![p] = <<>>]
    /\ page' = [page EXCEPT ![p] = NoPage]
    /\ UNCHANGED <<today, fetched, outcome, raced>>
    /\ UNCHANGED avars

\* An invocation started while no other invocation is running.
SeqBegin(p) ==
    /\ \A q \in Procs : pc[q] = "idle"
    /\ Begin(p)

NoTable == [columns |-> <<>>, rows |-> <<>>]

CollectorInit ==
    /\ today = FirstDate
    /\ dir = [n \in AllNames |-> Absent]
    /\ pc = [p \in Procs |-> "idle"]
    /\ file_path = [p \in Procs |-> <<>>]
    /\ page = [p \in Procs |-> NoPage]
    /\ fetched = [p \in Procs |-> 0]
    /\ outcome = [p \in Procs |-> "none"]
    /\ raced = [p \in Procs |-> FALSE]

Init ==
    /\ CollectorInit
    /\ apc = "off"
    /\ file_names = <<>>
    /\ df = NoTable
    /\ csv = <<>>
    /\ png = {}

Next ==
    \/ Tick
    \/ \E p \in Procs :
        \/ Begin(p)
        \/ Check(p)
        \/ Fetch(p)
        \/ Parse(p)
        \/ Open(p)
        \/ WriteClose(p)

\* Collector invocations that may overlap.
Spec == Init /\ [][Next]_vars

SeqNext ==
    \/ Tick
    \/ \E p \in Procs :
        \/ SeqBegin(p)
        \/ Check(p)
        \/ Fetch(p)
        \/ Parse(p)
        \/ Open(p)
        \/ WriteClose(p)

\* Collector invocations that run one after the other.
SeqSpec == Init /\ [][SeqNext]_vars

----------------------------------------------------------------------------
(* Aggregator: accumulate.process_files_in_directory *)

\* A Python dict: its items in insertion order.
DictHas(d, k) == \E i \in 1..Len(d) : d[i].k = k

DictGet(d, k) == d[CHOOSE i \in 1..Len(d) : d[i].k = k].v

\* d[k] = v: an existing key keeps its position.
DictSet(d, k, v) ==
    IF DictHas(d, k)
    THEN [i \in 1..Len(d) |-> IF d[i].k = k THEN [k |-> k, v |-> v] ELSE d[i]]
    ELSE Append(d, [k |-> k, v |-> v])

\* Table cells: a string, an int, a float (of integral value n) or NaN.
StrCell(s) == [kind |-> "str", num |-> 0, str |-> s]
IntCell(n) == [kind |-> "int", num |-> n, str |-> <<>>]
FloatCell(n) == [kind |-> "float", num |-> n, str |-> <<>>]
NaN == [kind |-> "nan", num |-> 0, str |-> <<>>]

IsCount(c) == c.kind \in {"int", "float"}

\* os.listdir in the order the file system happens to give: here, descending
RECURSIVE ListingOrder(_)
ListingOrder(names) ==
    IF names = {} THEN <<>>
    ELSE LET last == CHOOSE n \in names : \A m \in names \ {n} : StrLess(m, n)
         IN  <<last>> \o ListingOrder(names \ {last})

\* sorted(names): ascending by str comparison
RECURSIVE Sorted(_)
Sorted(names) ==
    IF names = {} THEN <<>>
    ELSE LET first == CHOOSE n \in names : \A m \in names \ {n} : StrLess(n, m)
         IN  <<first>> \o Sorted(names \ {first})

\* f.startswith('palabras_') and f.endswith('.txt')
IsSnapshotName(f) == StartsWith(f, PREFIX) /\ EndsWith(f, SUFFIX)

\* line 15
FileNames(d) == Sorted({ f \in ListDir(d) : IsSnapshotName(f) })

\* line 19
DateStr(file_name) == RemoveAll(RemoveAll(file_name, PREFIX), SUFFIX)

\* lines 29-30: for word in words: accumulated_counts[word] += 1
RECURSIVE CountWords(_, _)
CountWords(acc, words) ==
    IF words = <<>> THEN acc
    ELSE LET w == Head(words)
             n == IF DictHas(acc, w) THEN DictGet(acc, w) ELSE 0
         IN  CountWords(DictSet(acc, w, n + 1), Tail(words))

\* row.update(accumulated_counts)
RECURSIVE RowUpdate(_, _)
RowUpdate(row, acc) ==
    IF acc = <<>> THEN row
    ELSE RowUpdate(DictSet(row, Head(acc).k, IntCell(Head(acc).v)), Tail(acc))

\* lines 33-34 with the date stored after the counts
MakeRowDateLast(date_str, acc) ==
    DictSet(RowUpdate(<<>>, acc), DATE, StrCell(date_str))

\* lines 33-34: row = {'date': date_str}; row.update(accumulated_counts)
MakeRow(date_str, acc) ==
    RowUpdate(<<[k |-> DATE, v |-> StrCell(date_str)]>>, acc)

\* lines 17-35: the loop over the sorted file names
RECURSIVE AllData(_, _, _)
AllData(d, names, acc) ==
    IF names = <<>> THEN <<>>
    ELSE LET file_name == Head(names)
             words == SplitLines(d[file_name].data)
             acc2 == CountWords(acc, words)
         IN  <<MakeRow(DateStr(file_name), acc2)>>
                 \o AllData(d, Tail(names), acc2)

\* The columns of pd.DataFrame(list of dicts): the keys in order of first
\* appearance.
RECURSIVE AddKeys(_, _)
AddKeys(cols, row) ==
    IF row = <<>> THEN cols
    ELSE AddKeys(IF \E j \in 1..Len(cols) : cols[j] = Head(row).k
                 THEN cols ELSE Append(cols, Head(row).k),
                 Tail(row))

RECURSIVE Columns(_, _)
Columns(cols, all_data) ==
    IF all_data = <<>> THEN cols
    ELSE Columns(AddKeys(cols, Head(all_data)), Tail(all_data))

\* line 38: a key missing from a row is NaN, and a numeric column holding a
\* NaN is a float column.
DataFrame(all_data) ==
    LET cols == Columns(<<>>, all_data)
        raw(i, j) == IF DictHas(all_data[i], cols[j])
                     THEN DictGet(all_data[i], cols[j]) ELSE NaN
        isFloat(j) ==
            /\ \E i \in 1..Len(all_data) : raw(i, j).kind = "nan"
            /\ \A i \in 1..Len(all_data) : raw(i, j).kind \in {"nan", "int"}
        cell(i, j) == IF isFloat(j) /\ raw(i, j).kind = "int"
                      THEN FloatCell(raw(i, j).num) ELSE raw(i, j)
    IN  [columns |-> cols,
         rows |-> [i \in 1..Len(all_data) |-> [j \in 1..Len(cols) |-> cell(i, j)]]]

\* line 41: df.fillna(0)
FillNa(t) ==
    [columns |-> t.columns,
     rows |-> [i \in 1..Len(t.rows) |->
                 [j \in 1..Len(t.columns) |->
                     IF t.rows[i][j].kind # "nan" THEN t.rows[i][j]
                     ELSE IF \A r \in 1..Len(t.rows) :
                                 t.rows[r][j].kind \in {"nan", "float"}
                          THEN FloatCell(0) ELSE IntCell(0)]]]

\* lines 17-43
process_files_in_directory(d, names) ==
    FillNa(DataFrame(AllData(d, names, <<>>)))

----------------------------------------------------------------------------
(* Aggregator: the CSV export *)

COMMA == ","
QUOTE == "\""

Contains(s, c) == \E i \in 1..Len(s) : s[i] = c

RECURSIVE DoubleQuotes(_)
DoubleQuotes(s) ==
    IF s = <<>> THEN <<>>
    ELSE (IF Head(s) = QUOTE THEN <<QUOTE, QUOTE>> ELSE <<Head(s)>>)
            \o DoubleQuotes(Tail(s))

\* csv.QUOTE_MINIMAL
CsvField(s) ==
    IF Contains(s, COMMA) \/ Contains(s, QUOTE) \/ Contains(s, NL)
    THEN <<QUOTE>> \o DoubleQuotes(s) \o <<QUOTE>>
    ELSE s

RECURSIVE CsvLine(_)
CsvLine(fields) ==
    IF fields = <<>> THEN <<>>
    ELSE IF Len(fields) = 1 THEN CsvField(fields[1])
    ELSE CsvField(Head(fields)) \o <<COMMA>> \o CsvLine(Tail(fields))

CellText(c) ==
    CASE c.kind = "str" -> c.str
      [] c.kind = "int" -> FormatInt(c.num)
      [] c.kind = "float" -> FormatInt(c.num) \o <<".", "0">>
      [] OTHER -> <<>>

\* df.to_csv(path) with the default index=True: a leading unnamed column of
\* row numbers
ToCsvWithIndex(t) ==
    <<CsvLine(<< <<>> >> \o t.columns)>> \o
    [i \in 1..Len(t.rows) |->
        CsvLine(<<FormatInt(i - 1)>> \o
                [j \in 1..Len(t.columns) |-> CellText(t.rows[i][j])])]

\* line 162: df.to_csv(args.output_csv, index=False)
ToCsv(t) ==
    <<CsvLine(t.columns)>> \o
    [i \in 1..Len(t.rows) |->
        CsvLine([j \in 1..Len(t.columns) |-> CellText(t.rows[i][j])])]

\* Reading a CSV line back: fields split at the commas outside quotes, a
\* doubled quote inside quotes standing for one.
RECURSIVE CsvSplit(_, _, _)
CsvSplit(s, cur, quoted) ==
    IF s = <<>> THEN <<cur>>
    ELSE IF quoted
         THEN IF Head(s) = QUOTE
              THEN IF Len(s) >= 2 /\ s[2] = QUOTE
                   THEN CsvSplit(Tail(Tail(s)), Append(cur, QUOTE), TRUE)
                   ELSE CsvSplit(Tail(s), cur, FALSE)
              ELSE CsvSplit(Tail(s), Append(cur, Head(s)), TRUE)
         ELSE IF Head(s) = QUOTE THEN CsvSplit(Tail(s), cur, TRUE)
         ELSE IF Head(s) = COMMA THEN <<cur>> \o CsvSplit(Tail(s), <<>>, FALSE)
         ELSE CsvSplit(Tail(s), Append(cur, Head(s)), FALSE)

IsDigits(s) == s # <<>> /\ \A i \in 1..Len(s) : Contains(DigitChars, s[i])

DigitValue(c) == (CHOOSE i \in 1..10 : DigitChars[i] = c) - 1

RECURSIVE ParseInt(_)
ParseInt(s) ==
    IF s = <<>> THEN 0
    ELSE 10 * ParseInt(SubSeq(s, 1, Len(s) - 1)) + DigitValue(s[Len(s)])

\* A field read back: digits are an int, digits followed by ".0" a float,
\* anything else text.
ParseCell(s) ==
    IF IsDigits(s) THEN IntCell(ParseInt(s))
    ELSE IF /\ Len(s) >= 3
            /\ SubSeq(s, Len(s) - 1, Len(s)) = <<".", "0">>
            /\ IsDigits(SubSeq(s, 1, Len(s) - 2))
         THEN FloatCell(ParseInt(SubSeq(s, 1, Len(s) - 2)))
         ELSE StrCell(s)

ReadCsv(lines) ==
    [columns |-> CsvSplit(lines[1], <<>>, FALSE),
     rows |-> [i \in 1..(Len(lines) - 1) |->
                 LET fields == CsvSplit(lines[i + 1], <<>>, FALSE)
                 IN  [j \in 1..Len(fields) |-> ParseCell(fields[j])]]]

----------------------------------------------------------------------------
(* Aggregator: save_last_row_as_png *)

TopN == 15

\* lines 115-119: the last row without its 'date' entry, as (word, count)
\* in column order.
LastRowBars(t) ==
    LET last == t.rows[Len(t.rows)]
        all == [j \in 1..Len(t.columns) |->
                   [word |-> t.columns[j], count |-> last[j].num]]
    IN  SelectSeq(all, LAMBDA b : b.word # DATE)

\* The subsets of S with k elements.
RECURSIVE KSubsets(_, _)
KSubsets(S, k) ==
    IF k = 0 THEN {{}}
    ELSE IF Cardinality(S) < k THEN {}
    ELSE LET x == CHOOSE y \in S : TRUE
         IN  { T \cup {x} : T \in KSubsets(S \ {x}, k - 1) }
                 \cup KSubsets(S \ {x}, k)

\* sort_values(by='count') left ascending, then head(15): the lowest counts
TopChoicesAscending(bars) ==
    LET idx == 1..Len(bars)
        k == IF Len(bars) < TopN THEN Len(bars) ELSE TopN
        cuts == { i \in idx :
                    /\ Cardinality({ j \in idx : bars[j].count < bars[i].count }) < k
                    /\ Cardinality({ j \in idx : bars[j].count <= bars[i].count }) >= k }
    IN  IF k = 0 THEN {{}}
        ELSE LET c == bars[CHOOSE i \in cuts : TRUE].count
                 below == { j \in idx : bars[j].count < c }
                 tied == { j \in idx : bars[j].count = c }
             IN  { { bars[j] : j \in below \cup (tied \ E) } :
                     E \in KSubsets(tied, Cardinality(tied) - (k - Cardinality(below))) }

\* line 121: sort_values(by='count', ascending=False).head(15).  The sort is
\* pandas' default kind, 'quicksort', which keeps no order among equal
\* counts: every bar above the cut-off count is kept, and of the bars tied
\* at the cut-off any may be the ones that are dropped.
TopChoices(bars) ==
    LET idx == 1..Len(bars)
        k == IF Len(bars) < TopN THEN Len(bars) ELSE TopN
        cuts == { i \in idx :
                    /\ Cardinality({ j \in idx : bars[j].count > bars[i].count }) < k
                    /\ Cardinality({ j \in idx : bars[j].count >= bars[i].count }) >= k }
    IN  IF k = 0 THEN {{}}
        ELSE LET c == bars[CHOOSE i \in cuts : TRUE].count
                 above == { j \in idx : bars[j].count > c }
                 tied == { j \in idx : bars[j].count = c }
             IN  { { bars[j] : j \in above \cup (tied \ E) } :
                     E \in KSubsets(tied, Cardinality(tied) - (k - Cardinality(above))) }

----------------------------------------------------------------------------
(* Aggregator: the __main__ block *)

\* The words a snapshot handed to the aggregator may hold.
Words == {sol, mar, DATE}

\* A word that to_csv has to quote, and the word of an empty line.
a_b == <<"a", ",", "b">>
empty == <<>>

\* The word lists of the snapshots handed to the aggregator: no line, one
\* line, two lines (a word twice among them), and the two special words.
WordLists ==
    {<<>>} \cup { <<x>> : x \in Words } \cup { <<x, y>> : x \in Words, y \in Words }
        \cup { <<a_b>>, <<empty, sol>> }

SnapNames == { SnapshotName(d) : d \in Dates }

SnapFiles == {Absent} \cup { File(WriteLines(ws)) : ws \in WordLists }

\* line 157
ProcessFiles ==
    /\ apc = "start"
    /\ file_names' = FileNames(dir)
    /\ df' = process_files_in_directory(dir, FileNames(dir))
    /\ apc' = "table"
    /\ UNCHANGED <<csv, png>>
    /\ UNCHANGED cvars

\* line 159: df.melt(id_vars=["date"]) raises KeyError on a table without a
\* 'date' column, which is the table of a directory without snapshots.
CreateRaceChart ==
    /\ apc = "table"
    /\ apc' = IF \E j \in 1..Len(df.columns) : df.columns[j] = DATE
              THEN "chart" ELSE "crashed"
    /\ UNCHANGED <<file_names, df, csv, png>>
    /\ UNCHANGED cvars

\* lines 161-162
ExportCsv ==
    /\ apc = "chart"
    /\ \E output_csv \in BOOLEAN :
          csv' = IF output_csv THEN ToCsv(df) ELSE <<>>
    /\ apc' = "exported"
    /\ UNCHANGED <<file_names, df, png>>
    /\ UNCHANGED cvars

\* lines 170-171
SavePng ==
    /\ apc = "exported"
    /\ \E output_png \in BOOLEAN :
          IF output_png
          THEN \E chosen \in TopChoices(LastRowBars(df)) : png' = chosen
          ELSE png' = {}
    /\ apc' = "done"
    /\ UNCHANGED <<file_names, df, csv>>
    /\ UNCHANGED cvars

\* The aggregator started on any directory of snapshots written as the
\* collector writes them, with or without entries that are not snapshots.
AggInit ==
    /\ today = FirstDate
    /\ pc = [p \in Procs |-> "idle"]
    /\ file_path = [p \in Procs |-> <<>>]
    /\ page = [p \in Procs |-> NoPage]
    /\ fetched = [p \in Procs |-> 0]
    /\ outcome = [p \in Procs |-> "none"]
    /\ raced = [p \in Procs |-> FALSE]
    /\ \E snaps \in [SnapNames -> SnapFiles], others \in SUBSET ForeignNames :
          dir = [n \in AllNames |->
                    IF n \in SnapNames THEN snaps[n]
                    ELSE IF n \in others THEN File(WriteLines(<<sol>>))
                    ELSE Absent]
    /\ apc = "start"
    /\ file_names = <<>>
    /\ df = NoTable
    /\ csv = <<>>
    /\ png = {}

AggNext ==
    \/ ProcessFiles
    \/ CreateRaceChart
    \/ ExportCsv
    \/ SavePng

\* One run of the aggregator.
AggSpec == AggInit /\ [][AggNext]_vars

\* The i-th word column of a wide table.
Word(i) == <<"w">> \o FormatInt(i)

\* A one-row table of n words, those in `low` counted once and the others
\* twice: the table of a single snapshot.
WideTable(n, low) ==
    [columns |-> <<DATE>> \o [i \in 1..n |-> Word(i)],
     rows |-> << <<StrCell(Strftime(FirstDate))>> \o
                 [i \in 1..n |-> IntCell(IF i \in low THEN 1 ELSE 2)] >>]

RECURSIVE SubsetsUpTo(_, _)
SubsetsUpTo(S, k) ==
    IF k = 0 THEN {{}} ELSE SubsetsUpTo(S, k - 1) \cup KSubsets(S, k)

\* save_last_row_as_png handed a table of more than 15 words.
PngInit ==
    /\ today = FirstDate
    /\ dir = [n \in AllNames |-> Absent]
    /\ pc = [p \in Procs |-> "idle"]
    /\ file_path = [p \in Procs |-> <<>>]
    /\ page = [p \in Procs |-> NoPage]
    /\ fetched = [p \in Procs |-> 0]
    /\ outcome = [p \in Procs |-> "none"]
    /\ raced = [p \in Procs |-> FALSE]
    /\ apc = "exported"
    /\ file_names = <<>>
    /\ \E n \in (TopN + 1)..MaxCols :
          \E low \in SubsetsUpTo(1..n, MaxLow) : df = WideTable(n, low)
    /\ csv = <<>>
    /\ png = {}

PngNext == SavePng

PngSpec == PngInit /\ [][PngNext]_vars

----------------------------------------------------------------------------
(* What the claims speak of, stated without the aggregator's own code *)

\* The dates whose snapshot file is in the directory.
SnapDates(d) == { x \in Dates : Exists(d, SnapshotName(x)) }

\* Those dates, earliest first.
RECURSIVE Chrono(_)
Chrono(S) ==
    IF S = {} THEN <<>>
    ELSE LET first == CHOOSE x \in S : \A y \in S \ {x} : DateBefore(x, y)
         IN  <<first>> \o Chrono(S \ {first})

LinesOf(d, x) == SplitLines(d[SnapshotName(x)].data)

Occurrences(lines, w) == Cardinality({ i \in 1..Len(lines) : lines[i] = w })

\* The lines equal to w in the snapshots of the dates in S.
RECURSIVE Total(_, _, _)
Total(d, S, w) ==
    IF S = {} THEN 0
    ELSE LET x == CHOOSE y \in S : TRUE
         IN  Occurrences(LinesOf(d, x), w) + Total(d, S \ {x}, w)

\* The words that are a line of some snapshot.
WordUnion(d) ==
    UNION { { LinesOf(d, x)[i] : i \in 1..Len(LinesOf(d, x)) } : x \in SnapDates(d) }

HasColumn(t, w) == \E j \in 1..Len(t.columns) : t.columns[j] = w

Cell(t, i, w) == t.rows[i][CHOOSE j \in 1..Len(t.columns) : t.columns[j] = w]

TableBuilt == apc \in {"table", "chart", "crashed", "exported", "done"}

UpTo(d, i) == { Chrono(SnapDates(d))[k] : k \in 1..i }

\* head(15) of a stable descending sort: a bar is kept when fewer than 15
\* bars have a higher count or an equal count in an earlier column.
StableTop(bars) ==
    { bars[i] : i \in { i \in 1..Len(bars) :
        Cardinality({ j \in 1..Len(bars) :
            \/ bars[j].count > bars[i].count
            \/ bars[j].count = bars[i].count /\ j < i }) < TopN } }

BarSet(bars) == { bars[i] : i \in 1..Len(bars) }

\* No invocation holds the file open for writing.
Closed(n) == \A p \in Procs : ~(pc[p] = "write" /\ file_path[p] = n)

----------------------------------------------------------------------------
(* Claims *)

\* C1: for every word that is a line of some snapshot, "date" included, the
\* last row's value in that word's column is the number of lines equal to
\* the word in all snapshot files together.
C1_FinalCounts ==
    TableBuilt =>
        \A w \in WordUnion(dir) :
            /\ HasColumn(df, w)
            /\ IsCount(Cell(df, Len(df.rows), w))
            /\ Cell(df, Len(df.rows), w).num = Total(dir, SnapDates(dir), w)

\* C1 witness: two snapshots, "date" among their lines, "sol" on several
\* lines, and the table built.
C1_Witness ==
    /\ apc = "table"
    /\ Cardinality(SnapDates(dir)) = 2
    /\ DATE \in WordUnion(dir)
    /\ Total(dir, SnapDates(dir), sol) >= 2
    /\ Cell(df, 2, DATE).num = Total(dir, SnapDates(dir), DATE)

\* C2: in every word column each cell is a non-negative integer count, and
\* the count never decreases from one row to the next.
C2_Monotone ==
    TableBuilt =>
        \A w \in WordUnion(dir) : \A i \in 1..Len(df.rows) :
            /\ IsCount(Cell(df, i, w))
            /\ Cell(df, i, w).num >= 0
            /\ i > 1 => /\ IsCount(Cell(df, i - 1, w))
                        /\ Cell(df, i - 1, w).num <= Cell(df, i, w).num

\* C3: under sequential runs, an existing snapshot that no run holds open is
\* never changed by any later step; a run that finds its file prints the
\* message and returns without fetching or opening anything.
C3_WriteOnce ==
    [][ /\ \A n \in AllNames :
              (Exists(dir, n) /\ Closed(n)) => dir'[n] = dir[n]
        /\ \A p \in Procs :
              (pc[p] = "check" /\ pc'[p] # "check" /\ Exists(dir, file_path[p]))
                  => /\ pc'[p] = "idle"
                     /\ outcome'[p] = "skipped"
                     /\ fetched'[p] = 0
                     /\ dir' = dir ]_vars

\* C3 witness: a run has been turned away by a snapshot that holds words.
C3_Witness ==
    \E p \in Procs :
        /\ outcome[p] = "skipped"
        /\ pc[p] = "idle"
        /\ dir[SnapshotName(today)] = File(WriteLines(<<sol, mar>>))

\* C4: the cell of the i-th date and of word w is the number of lines equal
\* to w in the snapshots up to that date, 0 when there is none yet.
C4_Cumulative ==
    TableBuilt =>
        \A i \in 1..Len(df.rows) : \A w \in WordUnion(dir) :
            /\ IsCount(Cell(df, i, w))
            /\ Cell(df, i, w).num = Total(dir, UpTo(dir, i), w)

\* C5 as claimed: of more than 15 words the chart shows the 15 a stable
\* descending sort puts first, the earlier column winning a tie.
C5_StableTop ==
    (apc = "done" /\ png # {} /\ Len(LastRowBars(df)) > TopN)
        => png = StableTop(LastRowBars(df))

\* C5 as amended: of more than 15 words the chart shows exactly 15, none of
\* them with a lower count than a word left out.
C5_Top15 ==
    (apc = "done" /\ png # {} /\ Len(LastRowBars(df)) > TopN) =>
        /\ Cardinality(png) = TopN
        /\ png \subseteq BarSet(LastRowBars(df))
        /\ \A a \in png : \A b \in BarSet(LastRowBars(df)) \ png : a.count >= b.count

\* C5 witness: a chart of more than 15 words cut in the middle of a tie.
C5_Witness ==
    /\ apc = "done"
    /\ Len(LastRowBars(df)) > TopN
    /\ \E a \in png : \E b \in BarSet(LastRowBars(df)) \ png : a.count = b.count

\* C6: a run whose page lacks the div ends with the message and leaves the
\* directory as it was, so the day's file is no more present than before.
C6_NoDivNoFile ==
    [][ \A p \in Procs :
            (pc[p] = "parse" /\ pc'[p] # "parse" /\ ~page[p].div)
                => /\ pc'[p] = "idle"
                   /\ outcome'[p] = "nodiv"
                   /\ dir' = dir ]_vars

\* C6 witness: after a run that ended at the missing div, a later run of the
\* same day has written the day's snapshot.
C6_Witness ==
    \E p \in Procs : \E q \in Procs \ {p} :
        /\ outcome[p] = "nodiv"
        /\ outcome[q] = "created"
        /\ pc[q] = "idle"
        /\ today = FirstDate
        /\ dir[SnapshotName(FirstDate)] = File(WriteLines(<<sol>>))

\* C7: the CSV has the header date,<word1>,<word2>,... and one line per
\* processed snapshot, and read back it is the table it was written from.
C7_CsvRoundTrip ==
    csv # <<>> =>
        LET header == CsvSplit(csv[1], <<>>, FALSE)
        IN  /\ header[1] = DATE
            /\ { header[j] : j \in 2..Len(header) } = WordUnion(dir) \ {DATE}
            /\ Len(header) = 1 + Cardinality(WordUnion(dir) \ {DATE})
            /\ Len(csv) = 1 + Cardinality(SnapDates(dir))
            /\ ReadCsv(csv) = df

\* C7 witness: an exported table of two dates in which a word first appears
\* on the second date.
C7_Witness ==
    /\ csv # <<>>
    /\ Len(df.rows) = 2
    /\ HasColumn(df, mar)
    /\ Cell(df, 1, mar) = FloatCell(0)
    /\ Cell(df, 2, mar) = FloatCell(2)

\* C8: the files processed are exactly the snapshots in the directory,
\* earliest date first, whatever else the directory holds; each gives one
\* row, labelled with its date; the row of a file without lines repeats the
\* counts of the row before it (zeros in the first row).
C8_OneRowPerSnapshot ==
    TableBuilt =>
        LET order == Chrono(SnapDates(dir))
        IN  /\ file_names = [i \in 1..Len(order) |-> SnapshotName(order[i])]
            /\ Len(df.rows) = Len(order)
            /\ \A i \in 1..Len(df.rows) :
                  /\ Cell(df, i, DATE).kind = "str"
                        => Cell(df, i, DATE).str = Strftime(order[i])
                  /\ LinesOf(dir, order[i]) = <<>> =>
                        \A j \in 1..Len(df.columns) :
                            \/ df.rows[i][j].kind = "str"
                            \/ i = 1 /\ df.rows[i][j].num = 0
                            \/ i > 1 /\ df.rows[i][j] = df.rows[i - 1][j]

\* C8 witness: a directory of two snapshots, the later one without lines,
\* beside both entries that are not snapshots.
C8_Witness ==
    /\ apc = "table"
    /\ \A n \in ForeignNames : Exists(dir, n)
    /\ Len(df.rows) = 2
    /\ LinesOf(dir, FirstDate) = <<sol, mar>>
    /\ dir[file_names[2]] = File(<<>>)

\* C9 as claimed: the page is fetched whether or not the file exists, before
\* the existence check, so a run turned away by an existing file has fetched.
C9_FetchBeforeCheck ==
    \A p \in Procs : outcome[p] = "skipped" => fetched[p] = 1

\* C9 as amended: the existence check comes first; a run turned away by an
\* existing file has fetched nothing, and only a run past the check fetches.
C9_CheckBeforeFetch ==
    \A p \in Procs :
        /\ pc[p] \in {"check", "fetch"} => fetched[p] = 0
        /\ outcome[p] = "skipped" => fetched[p] = 0
        /\ pc[p] \in {"parse", "open", "write"} => fetched[p] = 1

\* C9 witness: a run has been turned away by an existing file.
C9_Witness ==
    \E p \in Procs :
        /\ outcome[p] = "skipped"
        /\ pc[p] = "idle"
        /\ Exists(dir, SnapshotName(today))

\* C10: a run truncates an existing snapshot only when the snapshot was
\* created by another run between this run's existence check and its open.
C10_OverwriteOnlyByRace ==
    \A p \in Procs : outcome[p] = "overwrote" => raced[p]

\* C10 witness: two runs of the same day have both passed the check and both
\* written; the second write replaced the first run's snapshot.
C10_Witness ==
    \E p \in Procs : \E q \in Procs \ {p} :
        /\ outcome[p] = "created"
        /\ outcome[q] = "overwrote"
        /\ pc[p] = "idle"
        /\ pc[q] = "idle"
        /\ today = FirstDate
        /\ dir[SnapshotName(FirstDate)] = File(WriteLines(<<sol>>))

====
